---- MODULE Spec2Model ----
(***************************************************************************)
(* A model of the Monsti service client (MonstiClient: the RPC operations, *)
(* the node codec, the signal bus) and of the HTTP node handler that       *)
(* borrows pooled sessions.                                                *)
(*                                                                         *)
(* Spec        one client instance used by one thread of control; the      *)
(*             transport's replies are chosen by the environment.          *)
(* SpecSignal  one emitting client and NumWaiters waiting clients that     *)
(*             talk to the broker's signal procedures.                     *)
(* SpecServe   NumRequests concurrent runs of nodeHandler.ServeHTTP over   *)
(*             one session pool.                                           *)
(***************************************************************************)
EXTENDS Integers, Sequences, FiniteSets, TLC

(***************************************************************************)
(* Bounds of the model.                                                    *)
(***************************************************************************)
\* number of clients that wait for signals (SpecSignal)
NumWaiters == 2
\* longest list the environment replies to GetChildren and EmitSignal (Spec)
MaxReply == 2
\* number of concurrent HTTP requests (SpecServe)
NumRequests == 2
\* number of threads that use the node codec, one node each (SpecShared)
NumThreads == 2

Emitter == 0
Waiters == 1 .. NumWaiters
Clients == 0 .. NumWaiters
\* the client instance that Spec exercises
Self == 0

(***************************************************************************)
(* Values.                                                                 *)
(***************************************************************************)
\* Go's nil error
Nil == "nil"
\* the stored error of a client whose connection could not be established
ConnErr == "ConnectionError"

Signals == {"X", "Y"}
\* the handler functions a program may register; NoHandler is the nil func
\* that a Go map yields for a missing key
HandlerIds == {"h1", "h2"}
NoHandler == "nohandler"

\* values passed to and returned by signal handlers; gob cannot encode every
\* value an interface may carry
SigValues == {"v1", "v2"}
Unencodable == "unencodable"
BadBytes == <<"junk">>

\* encoding/gob: Encode(argWrap{v}) and Decode into an argWrap
GobEncode(v) ==
    IF v = Unencodable
    THEN [err |-> "gob: type not encodable", bytes |-> <<>>]
    ELSE [err |-> Nil, bytes |-> <<"gob", "argWrap", v>>]

GobDecode(b) ==
    IF Len(b) = 3 /\ b[1] = "gob" /\ b[2] = "argWrap"
    THEN [err |-> Nil, Wrap |-> b[3]]
    ELSE [err |-> "gob: decode failed", Wrap |-> Nil]

SigBytes == {GobEncode(v).bytes : v \in SigValues} \cup {BadBytes}

(***************************************************************************)
(* The node codec.                                                         *)
(***************************************************************************)
\* field ids are strings "<group>.<name>", kept as sequences of characters
CoreTitle == <<"c", ".", "t">>
CoreBody == <<"c", ".", "b">>

\* strings.SplitN(s, ".", 2)
DotAt(s) ==
    IF \E i \in 1 .. Len(s) : s[i] = "."
    THEN CHOOSE i \in 1 .. Len(s) : s[i] = "." /\ \A j \in 1 .. (i - 1) : s[j] # "."
    ELSE 0

SplitN(s) ==
    IF DotAt(s) = 0
    THEN <<s>>
    ELSE <<SubSeq(s, 1, DotAt(s) - 1), SubSeq(s, DotAt(s) + 1, Len(s))>>

\* a NodeType as the broker describes it: an id and the declared field ids
PageType == [Id |-> "page", Fields |-> <<CoreTitle, CoreBody>>]
NodeTypes == {PageType}

\* encoding/json of a value and of an envelope
JsonMarshal(v) == <<"json", v>>
JsonUnmarshal(b) ==
    IF Len(b) = 2 /\ b[1] = "json"
    THEN [err |-> Nil, val |-> b[2]]
    ELSE [err |-> "json: syntax error", val |-> Nil]

EmptyData == <<>>
MalformedData == <<"{">>

\* RawOf that takes the first entry of the group, whatever its name
RawOfGroup(fields, group, name) ==
    IF group \in DOMAIN fields
    THEN <<fields[group][CHOOSE n \in DOMAIN fields[group] : TRUE]>>
    ELSE <<>>

\* looks up Fields[group][name] of an envelope; <<>> is the nil *RawMessage
RawOf(fields, group, name) ==
    IF group \in DOMAIN fields /\ name \in DOMAIN fields[group]
    THEN <<fields[group][name]>>
    ELSE <<>>

\* field values: the text a field holds; DefaultValue is what InitFields
\* leaves in a fresh field; json.Marshal fails on the dump of Undumpable
DefaultValue == ""
Undumpable == "undumpable"
BadRaw == <<"badraw">>

\* PutRaw that makes a new inner map for every entry
PutRawFresh(fields, group, name, raw) ==
    [g \in DOMAIN fields \cup {group} |->
        IF g = group THEN [n \in {name} |-> raw] ELSE fields[g]]

\* outNode.Fields[group][name] = &msg, creating the inner map when missing
PutRaw(fields, group, name, raw) ==
    [g \in DOMAIN fields \cup {group} |->
        IF g = group
        THEN [n \in (IF g \in DOMAIN fields THEN DOMAIN fields[g] ELSE {}) \cup {name} |->
                IF n = name THEN raw ELSE fields[g][n]]
        ELSE fields[g]]

\* the loop of nodeToData over append(node.Type.Fields, node.LocalFields...)
RECURSIVE DumpFields(_, _, _)
DumpFields(node, ids, acc) ==
    IF ids = <<>>
    THEN [st |-> "ok", fields |-> acc]
    ELSE LET id == Head(ids)
             parts == SplitN(id)
         IN  IF id \notin DOMAIN node.Fields
             THEN [st |-> "panic", fields |-> acc]
             ELSE IF node.Fields[id] = Undumpable
             THEN [st |-> "err", fields |-> acc]
             ELSE IF Len(parts) < 2
             THEN [st |-> "panic", fields |-> acc]
             ELSE DumpFields(node, Tail(ids),
                             PutRaw(acc, parts[1], parts[2], JsonMarshal(node.Fields[id])))

\* nodeToData from the loop on: the envelope carries the copy of the node, the
\* id of its type and the two-level mapping of raw field dumps
EncodeFields(copy, nodeFields) ==
    LET d == DumpFields(copy, nodeFields, <<>>)
    IN  IF d.st = "panic"
        THEN [st |-> "panic", err |-> Nil, data |-> <<>>]
        ELSE IF d.st = "err"
        THEN [st |-> "err", err |-> "Could not marshal field", data |-> <<>>]
        ELSE [st |-> "ok", err |-> Nil,
              data |-> JsonMarshal([Path |-> copy.Path, Changed |-> copy.Changed,
                                    LocalFields |-> copy.LocalFields,
                                    Type |-> copy.Type.Id, Fields |-> d.fields])]

\* nodeToData run by one thread alone: outNode.Node is the node with its path
\* cleared, nodeFields is the declared list followed by the local one
nodeToData(node) ==
    EncodeFields([node EXCEPT !.Path = ""], node.Type.Fields \o node.LocalFields)

\* Node.InitFields: a fresh field for every declared and local field
InitFields(ids) == [id \in {ids[i] : i \in 1 .. Len(ids)} |-> DefaultValue]

\* Field.Load(f): the field takes the value f unmarshals; a failing f leaves it
FieldLoad(old, raw) ==
    IF JsonUnmarshal(raw).err = Nil THEN JsonUnmarshal(raw).val ELSE old

\* the loop of dataToNode over append(ret.Type.Fields, ret.LocalFields...)
RECURSIVE LoadFields(_, _, _)
LoadFields(env, ids, acc) ==
    IF ids = <<>>
    THEN [st |-> "ok", fields |-> acc]
    ELSE LET id == Head(ids)
             parts == SplitN(id)
         IN  IF Len(parts) < 2
             THEN [st |-> "panic", fields |-> acc]
             ELSE LET value == RawOf(env.Fields, parts[1], parts[2])
                  IN  IF value = <<>>
                      THEN LoadFields(env, Tail(ids), acc)
                      ELSE IF id \notin DOMAIN acc
                      THEN [st |-> "panic", fields |-> acc]
                      ELSE LoadFields(env, Tail(ids),
                                      [acc EXCEPT ![id] = FieldLoad(@, value[1])])

\* ParseNode without the test of the length
ParseNodeUnchecked(data) ==
    IF JsonUnmarshal(data).err # Nil
    THEN [st |-> "err", env |-> <<>>]
    ELSE [st |-> "ok", env |-> <<JsonUnmarshal(data).val>>]

\* dataToNode up to the call of getNodeType: "empty" is the nil node
ParseNode(data) ==
    IF Len(data) = 0
    THEN [st |-> "empty", env |-> <<>>]
    ELSE IF JsonUnmarshal(data).err # Nil
    THEN [st |-> "err", env |-> <<>>]
    ELSE [st |-> "ok", env |-> <<JsonUnmarshal(data).val>>]

\* dataToNode from InitFields on, looping over nodeFields
LoadFieldsOf(env, nodeType, initOk, nodeFields) ==
    IF ~initOk
    THEN [st |-> "err", err |-> "Could not init node fields", node |-> <<>>]
    ELSE LET l == LoadFields(env, nodeFields, InitFields(nodeType.Fields \o env.LocalFields))
         IN  IF l.st = "panic"
             THEN [st |-> "panic", err |-> Nil, node |-> <<>>]
             ELSE [st |-> "ok", err |-> Nil,
                   node |-> <<[Path |-> env.Path, Changed |-> env.Changed,
                               LocalFields |-> env.LocalFields,
                               Type |-> nodeType, Fields |-> l.fields]>>]

\* dataToNode after getNodeType returned nodeType without error, run by one
\* thread alone
LoadNode(env, nodeType, initOk) ==
    LoadFieldsOf(env, nodeType, initOk, nodeType.Fields \o env.LocalFields)

\* nodes a caller writes
MkNode(title, body) ==
    [Path |-> "/about", Changed |-> "t0", LocalFields |-> <<>>, Type |-> PageType,
     Fields |-> [id \in {CoreTitle, CoreBody} |-> IF id = CoreTitle THEN title ELSE body]]
WriteNodes == {MkNode("About", "Hello"), MkNode("About", Undumpable)}

\* payloads the broker replies for a node
EnvTitleOnly ==
    [Path |-> "", Changed |-> "t0", LocalFields |-> <<>>, Type |-> "page",
     Fields |-> PutRaw(<<>>, <<"c">>, <<"t">>, JsonMarshal("About"))]
Payloads ==
    {EmptyData, MalformedData, JsonMarshal(EnvTitleOnly),
     nodeToData(MkNode("About", "Hello")).data}

\* the threads that call the codec and the nodes they hold: node n is the one
\* thread n built
Threads == 1 .. NumThreads
NodeIds == 1 .. NumThreads
\* the thread that SpecCodec exercises
Caller == 1

\* ids of local fields, and a declared id that has no "."
LocalX == <<"l", ".", "x">>
LocalY == <<"l", ".", "y">>
NoDot == <<"x">>
BadType == [Id |-> "bad", Fields |-> <<NoDot>>]
CodecTypes == NodeTypes \cup {BadType}

\* a slot of a backing array beyond the length of the slice
Unused == <<>>
\* the backing array of a NodeType's Fields slice: its capacity is the length
\* of the slice or leaves a spare slot (a slice grown by append or by
\* json.Unmarshal has spare capacity)
TypeArrays(type) == {type.Fields, Append(type.Fields, Unused)}

NodeOf(type, locals, fields) ==
    [Path |-> "/about", Changed |-> "t0", LocalFields |-> locals, Type |-> type,
     Fields |-> fields]
\* a page with one local field
LocalNode(id) ==
    NodeOf(PageType, <<id>>,
           [f \in {CoreTitle, CoreBody, id} |->
              IF f = CoreTitle THEN "About" ELSE IF f = CoreBody THEN "Hello" ELSE "extra"])
\* the nodes a caller encodes: a page, a page with a local field, a page whose
\* body does not dump, a node whose type declares an id without ".", a page
\* that has no value object for its body
CodecNodes ==
    {MkNode("About", "Hello"), LocalNode(LocalX), MkNode("About", Undumpable),
     NodeOf(BadType, <<>>, [f \in {NoDot} |-> "v"]),
     NodeOf(PageType, <<>>, [f \in {CoreTitle} |-> "About"])}

\* payloads a caller decodes: those of the broker, an envelope with an entry
\* that no field declares, one whose title is no JSON value, one of a type
\* that declares an id without "."
EnvExtra ==
    [EnvTitleOnly EXCEPT !.Fields = PutRaw(@, <<"z">>, <<"q">>, JsonMarshal("stray"))]
EnvBadRaw ==
    [EnvTitleOnly EXCEPT !.Fields = PutRaw(<<>>, <<"c">>, <<"t">>, BadRaw)]
EnvBadType == [EnvTitleOnly EXCEPT !.Type = "bad"]
CodecPayloads ==
    Payloads \cup {JsonMarshal(EnvExtra), JsonMarshal(EnvBadRaw), JsonMarshal(EnvBadType)}

(***************************************************************************)
(* State.                                                                  *)
(***************************************************************************)
VARIABLES
    \* MonstiClient, per client instance
    Error,            \* Client.Error, the sticky error: Nil or the stored error
    SignalHandlers,   \* MonstiClient.SignalHandlers: signal name -> handler
    pc,               \* where the client's thread of control stands
    arg,              \* the arguments of the current or last operation
    loc,              \* the locals of the operation in progress
    ret,              \* what the last operation returned to its caller
    retarg,           \* the result collection the caller hands to EmitSignal
    trace,            \* the calls and handler runs of the current operation
    \* the transport connection of each client
    inflight,         \* calls issued whose reply has not come back
    reply,            \* the reply the blocked Call is about to return
    \* the broker's signal procedures
    subscriptions,    \* the (client id, signal name) pairs of ConnectSignal
    emission,         \* the emission being fanned out, if any
    \* nodeHandler.ServeHTTP, per request, and the session pool
    hpc,              \* where the request's goroutine stands
    Serv,             \* reqContext.Serv: the session the request holds
    Action,           \* reqContext.Action
    defers,           \* the deferred calls of ServeHTTP, the last one on top
    response,         \* the HTTP status written to the response
    hlog,             \* what the request did with sessions and handlers
    idle,             \* SessionPool: the sessions free for reuse
    created,          \* SessionPool: how many sessions were ever created
    \* the node codec, per node, per NodeType and per calling thread
    cnode,            \* the node as its owner built it
    Path,             \* Node.Path, the field in memory
    typeArr,          \* the backing array of NodeType.Fields, by type id
    cpc,              \* where the thread stands in nodeToData or dataToNode
    cloc,             \* the locals of the call in progress
    cres              \* what the thread's last call returned

clientVars ==
    <<Error, SignalHandlers, pc, arg, loc, ret, retarg, trace, inflight, reply>>
brokerVars == <<subscriptions, emission>>
processVars == <<Error, SignalHandlers, pc, arg, loc, ret, retarg, trace>>
serveVars == <<hpc, Serv, Action, defers, response, hlog, idle, created>>
codecVars == <<cnode, Path, typeArr, cpc, cloc, cres>>
vars == <<clientVars, brokerVars, serveVars, codecVars>>

NoLoc == [k |-> "none"]
NoArg == [k |-> "none"]
NoRet == [op |-> "none", err |-> Nil, val |-> <<>>]
NoRes == [op |-> "none"]
RpcErr == "rpc: call failed"
Ack == "ack"

\* the events of a trace, by kind
Calls(tr) == SelectSeq(tr, LAMBDA e : e.ev = "call")
CallsOf(tr, proc) == SelectSeq(tr, LAMBDA e : e.ev = "call" /\ e.what = proc)
Dispatches(tr) == SelectSeq(tr, LAMBDA e : e.ev = "dispatch")
HandlerRuns(tr) == SelectSeq(tr, LAMBDA e : e.ev = "handler")

CallEv(proc, data) == [ev |-> "call", what |-> proc, data |-> data]
HandlerEv(name, data) == [ev |-> "handler", what |-> name, data |-> data]

\* the operation o returns (e, v) to its caller
Finish(c, o, e, v, tr) ==
    /\ pc' = [pc EXCEPT ![c] = "idle"]
    /\ ret' = [ret EXCEPT ![c] = [op |-> o, err |-> e, val |-> v]]
    /\ trace' = [trace EXCEPT ![c] = tr]
    /\ loc' = [loc EXCEPT ![c] = NoLoc]

\* s.RPCClient.Call(proc, a, &reply): the call goes out and the thread blocks
\* at `at` until the reply is back
Issue(c, o, proc, a, at, tr, l) ==
    /\ pc' = [pc EXCEPT ![c] = at]
    /\ inflight' = [inflight EXCEPT ![c] = Append(@, [proc |-> proc, arg |-> a])]
    /\ trace' = [trace EXCEPT ![c] = Append(tr, CallEv(proc, a))]
    /\ loc' = [loc EXCEPT ![c] = l]
    /\ ret' = [ret EXCEPT ![c] = [op |-> o, err |-> "running", val |-> <<>>]]

\* the blocked Call returns
Returned(c, at) == pc[c] = at /\ reply[c] # <<>>
Take(c) == reply' = [reply EXCEPT ![c] = <<>>]

\* a panic nobody recovers ends the client's process
Crash(c, tr) ==
    /\ pc' = [pc EXCEPT ![c] = "crashed"]
    /\ trace' = [trace EXCEPT ![c] = tr]
    /\ UNCHANGED <<ret, loc>>

\* Client.Connect as NewMonstiConnection uses it: a connection-establishment
\* failure is stored as the client's sticky error
Connect(c) ==
    /\ pc[c] = "new"
    /\ \E e \in {Nil, ConnErr} : Error' = [Error EXCEPT ![c] = e]
    /\ pc' = [pc EXCEPT ![c] = "idle"]
    /\ UNCHANGED <<SignalHandlers, arg, loc, ret, retarg, trace, inflight, reply, brokerVars, serveVars, codecVars>>

\* UnaryBegin without the check of the sticky error
UnaryBeginUnchecked(c, o, proc, a, args, stickyErr) ==
    /\ pc[c] = "idle"
    /\ arg' = [arg EXCEPT ![c] = args]
    /\ Issue(c, o, proc, a, o, <<>>, NoLoc)
    /\ UNCHANGED <<Error, SignalHandlers, retarg, reply, brokerVars, serveVars, codecVars>>

\* an operation that checks the sticky error, makes one call and returns
UnaryBegin(c, o, proc, a, args, stickyErr) ==
    /\ pc[c] = "idle"
    /\ arg' = [arg EXCEPT ![c] = args]
    /\ IF Error[c] # Nil
       THEN Finish(c, o, stickyErr, <<>>, <<>>) /\ UNCHANGED inflight
       ELSE Issue(c, o, proc, a, o, <<>>, NoLoc)
    /\ UNCHANGED <<Error, SignalHandlers, retarg, reply, brokerVars, serveVars, codecVars>>

\* UnaryReturn that makes the failure of one call the client's sticky error
UnaryReturnSticky(c, o, failMsg, v) ==
    /\ Returned(c, o)
    /\ IF reply[c][1].err # Nil
       THEN Finish(c, o, failMsg, <<>>, trace[c]) /\ Error' = [Error EXCEPT ![c] = failMsg]
       ELSE Finish(c, o, Nil, v, trace[c]) /\ UNCHANGED Error
    /\ Take(c)
    /\ UNCHANGED <<SignalHandlers, arg, retarg, inflight, brokerVars, serveVars, codecVars>>

UnaryReturn(c, o, failMsg, v) ==
    /\ Returned(c, o)
    /\ IF reply[c][1].err # Nil
       THEN Finish(c, o, failMsg, <<>>, trace[c])
       ELSE Finish(c, o, Nil, v, trace[c])
    /\ Take(c)
    /\ UNCHANGED <<Error, SignalHandlers, arg, retarg, inflight, brokerVars, serveVars, codecVars>>

ModuleInitDone(c) ==
    UnaryBegin(c, "ModuleInitDone", "Monsti.ModuleInitDone", <<>>, NoArg, Error[c])
ModuleInitDoneReturn(c) ==
    UnaryReturn(c, "ModuleInitDone", "service: ModuleInitDone error", <<>>)

GetNodeData(c) ==
    UnaryBegin(c, "GetNodeData", "Monsti.GetNodeData", <<>>, NoArg, Error[c])
GetNodeDataReturn(c) ==
    UnaryReturn(c, "GetNodeData", "service: GetNodeData error", <<reply[c][1].val>>)

\* WriteNodeData returns nil on a client in the sticky-error state
WriteNodeData(c) ==
    UnaryBegin(c, "WriteNodeData", "Monsti.WriteNodeData", <<>>, NoArg, Nil)
WriteNodeDataReturn(c) ==
    UnaryReturn(c, "WriteNodeData", "service: WriteNodeData error", <<>>)

\* RemoveNode returns nil on a client in the sticky-error state
RemoveNode(c) ==
    UnaryBegin(c, "RemoveNode", "Monsti.RemoveNode", <<>>, NoArg, Nil)
RemoveNodeReturn(c) ==
    UnaryReturn(c, "RemoveNode", "service: RemoveNode error", <<>>)

\* RenameNode returns nil on a client in the sticky-error state
RenameNode(c) ==
    UnaryBegin(c, "RenameNode", "Monsti.RenameNode", <<>>, NoArg, Nil)
RenameNodeReturn(c) ==
    UnaryReturn(c, "RenameNode", "service: RenameNode error", <<>>)

RegisterNodeType(c) ==
    UnaryBegin(c, "RegisterNodeType", "Monsti.RegisterNodeType", <<>>, NoArg, Error[c])
RegisterNodeTypeReturn(c) ==
    UnaryReturn(c, "RegisterNodeType", "service: Error calling RegisterNodeType", <<>>)

GetNodeType(c) ==
    UnaryBegin(c, "GetNodeType", "Monsti.GetNodeType", <<"page">>, NoArg, Error[c])
GetNodeTypeReturn(c) ==
    UnaryReturn(c, "GetNodeType", "service: Error calling GetNodeType", <<reply[c][1].val>>)

GetNodeTypes(c) ==
    UnaryBegin(c, "GetNodeTypes", "Monsti.GetNodeTypes", <<>>, NoArg, Error[c])
GetNodeTypesReturn(c) ==
    UnaryReturn(c, "GetNodeTypes", "service: RPC error for GetNodeTypes", <<reply[c][1].val>>)

GetAddableNodeTypes(c) ==
    UnaryBegin(c, "GetAddableNodeTypes", "Monsti.GetAddableNodeTypes", <<>>, NoArg, Error[c])
GetAddableNodeTypesReturn(c) ==
    UnaryReturn(c, "GetAddableNodeTypes", "service: Error calling GetAddableNodeTypes",
                <<reply[c][1].val>>)

PublishService(c) ==
    UnaryBegin(c, "PublishService", "Monsti.PublishService", <<>>, NoArg, Error[c])
PublishServiceReturn(c) ==
    UnaryReturn(c, "PublishService", "service: Error calling PublishService", <<>>)

SendMail(c) ==
    UnaryBegin(c, "SendMail", "Monsti.SendMail", <<>>, NoArg, Error[c])
SendMailReturn(c) ==
    UnaryReturn(c, "SendMail", "service: Monsti.SendMail error", <<>>)

\* getConfig: an empty reply leaves out alone, otherwise out takes the value
\* of the first key of the decoded mapping
getConfig(data) ==
    IF Len(data) = 0
    THEN [err |-> Nil, val |-> <<>>]
    ELSE IF JsonUnmarshal(data).err # Nil
    THEN [err |-> "service: Could not decode configuration", val |-> <<>>]
    ELSE [err |-> Nil, val |-> <<JsonUnmarshal(data).val>>]

GetSiteConfig(c) ==
    UnaryBegin(c, "GetSiteConfig", "Monsti.GetSiteConfig", <<>>, NoArg, Error[c])
GetSiteConfigReturn(c) ==
    /\ Returned(c, "GetSiteConfig")
    /\ IF reply[c][1].err # Nil
       THEN Finish(c, "GetSiteConfig", "service: GetSiteConfig error", <<>>, trace[c])
       ELSE Finish(c, "GetSiteConfig", getConfig(reply[c][1].val).err,
                   getConfig(reply[c][1].val).val, trace[c])
    /\ Take(c)
    /\ UNCHANGED <<Error, SignalHandlers, arg, retarg, inflight, brokerVars, serveVars, codecVars>>

\* GetRequest: a reply whose id is not the requested one means "no request"
ReqIds == {"r1", "r2"}
GetRequest(c) ==
    \E id \in ReqIds :
        UnaryBegin(c, "GetRequest", "Monsti.GetRequest", <<id>>, [k |-> "req", id |-> id],
                   Error[c])
GetRequestReturn(c) ==
    /\ Returned(c, "GetRequest")
    /\ IF reply[c][1].err # Nil
       THEN Finish(c, "GetRequest", "service: Monsti.GetRequest error", <<>>, trace[c])
       ELSE IF reply[c][1].val.Id # arg[c].id
       THEN Finish(c, "GetRequest", Nil, <<>>, trace[c])
       ELSE Finish(c, "GetRequest", Nil, <<reply[c][1].val>>, trace[c])
    /\ Take(c)
    /\ UNCHANGED <<Error, SignalHandlers, arg, retarg, inflight, brokerVars, serveVars, codecVars>>

\* WriteNode returns nil on a client in the sticky-error state; otherwise it
\* stamps the node, encodes it and hands the bytes to WriteNodeData, whose own
\* check of the sticky error passes since the error was nil a moment ago
WriteNode(c) ==
    /\ pc[c] = "idle"
    /\ \E node \in WriteNodes :
        /\ arg' = [arg EXCEPT ![c] = [k |-> "node", node |-> node]]
        /\ IF Error[c] # Nil
           THEN Finish(c, "WriteNode", Nil, <<>>, <<>>) /\ UNCHANGED inflight
           ELSE LET d == nodeToData([node EXCEPT !.Changed = "now"])
                IN  IF d.st = "panic"
                    THEN Crash(c, <<>>) /\ UNCHANGED inflight
                    ELSE IF d.st = "err"
                    THEN Finish(c, "WriteNode", "service: Could not convert node", <<>>,
                                <<>>)
                         /\ UNCHANGED inflight
                    ELSE Issue(c, "WriteNode", "Monsti.WriteNodeData", d.data,
                               "WriteNode", <<>>, NoLoc)
    /\ UNCHANGED <<Error, SignalHandlers, retarg, reply, brokerVars, serveVars, codecVars>>
WriteNodeReturn(c) ==
    UnaryReturn(c, "WriteNode", "service: Could not write node", <<>>)

\* dataToNode once getNodeType has replied: the decoded node, an error or a panic
Decoded(r, env, initOk) ==
    IF r.err # Nil
    THEN [st |-> "err", err |-> "Could not get node type", node |-> <<>>]
    ELSE LoadNode(env, r.val, initOk)

\* GetNode returns (nil, nil) on a client in the sticky-error state
GetNode(c) ==
    UnaryBegin(c, "GetNode", "Monsti.GetNode", <<>>, NoArg, Nil)
\* the reply of Monsti.GetNode is decoded up to the lookup of the node type,
\* which is a call of s.GetNodeType
GetNodeReply(c) ==
    /\ Returned(c, "GetNode")
    /\ LET r == reply[c][1]
           p == ParseNode(r.val)
       IN  IF r.err # Nil
           THEN Finish(c, "GetNode", "service: GetNode error", <<>>, trace[c])
                /\ UNCHANGED inflight
           ELSE IF p.st = "empty"
           THEN Finish(c, "GetNode", Nil, <<>>, trace[c]) /\ UNCHANGED inflight
           ELSE IF p.st = "err"
           THEN Finish(c, "GetNode", "service: Could not convert node", <<>>, trace[c])
                /\ UNCHANGED inflight
           ELSE Issue(c, "GetNode", "Monsti.GetNodeType", <<p.env[1].Type>>, "GetNode.type",
                      trace[c], [k |-> "decode", env |-> p.env[1]])
    /\ Take(c)
    /\ UNCHANGED <<Error, SignalHandlers, arg, retarg, brokerVars, serveVars, codecVars>>
GetNodeReturn(c) ==
    /\ Returned(c, "GetNode.type")
    /\ \E initOk \in BOOLEAN :
        LET d == Decoded(reply[c][1], loc[c].env, initOk)
        IN  IF d.st = "panic"
            THEN Crash(c, trace[c])
            ELSE IF d.st = "err"
            THEN Finish(c, "GetNode", "service: Could not convert node", <<>>, trace[c])
            ELSE Finish(c, "GetNode", Nil, d.node, trace[c])
    /\ Take(c)
    /\ UNCHANGED <<Error, SignalHandlers, arg, retarg, inflight, brokerVars, serveVars, codecVars>>

\* Advance that appends nothing for an empty entry
RECURSIVE AdvanceSkipEmpty(_, _)
AdvanceSkipEmpty(entries, nodes) ==
    IF entries = <<>>
    THEN [st |-> "done", nodes |-> nodes, env |-> <<>>, todo |-> <<>>]
    ELSE LET p == ParseNode(Head(entries))
         IN  IF p.st = "empty"
             THEN AdvanceSkipEmpty(Tail(entries), nodes)
             ELSE IF p.st = "err"
             THEN [st |-> "err", nodes |-> nodes, env |-> <<>>, todo |-> <<>>]
             ELSE [st |-> "lookup", nodes |-> nodes, env |-> p.env, todo |-> Tail(entries)]

\* the loop of GetChildren up to the next entry that needs a node type: empty
\* entries decode to the nil node without a lookup
RECURSIVE Advance(_, _)
Advance(entries, nodes) ==
    IF entries = <<>>
    THEN [st |-> "done", nodes |-> nodes, env |-> <<>>, todo |-> <<>>]
    ELSE LET p == ParseNode(Head(entries))
         IN  IF p.st = "empty"
             THEN Advance(Tail(entries), Append(nodes, <<>>))
             ELSE IF p.st = "err"
             THEN [st |-> "err", nodes |-> nodes, env |-> <<>>, todo |-> <<>>]
             ELSE [st |-> "lookup", nodes |-> nodes, env |-> p.env, todo |-> Tail(entries)]

\* entries is the reply of Monsti.GetChildren the loop ranges over
GetChildrenStep(c, adv, entries) ==
    IF adv.st = "done"
    THEN Finish(c, "GetChildren", Nil, <<adv.nodes>>, trace[c]) /\ UNCHANGED inflight
    ELSE IF adv.st = "err"
    THEN Finish(c, "GetChildren", "service: Could not convert node", <<>>, trace[c])
         /\ UNCHANGED inflight
    ELSE Issue(c, "GetChildren", "Monsti.GetNodeType", <<adv.env[1].Type>>,
               "GetChildren.type", trace[c],
               [k |-> "children", env |-> adv.env[1], todo |-> adv.todo, nodes |-> adv.nodes,
                entries |-> entries])

GetChildren(c) ==
    UnaryBegin(c, "GetChildren", "Monsti.GetChildren", <<>>, NoArg, Error[c])
GetChildrenReply(c) ==
    /\ Returned(c, "GetChildren")
    /\ IF reply[c][1].err # Nil
       THEN Finish(c, "GetChildren", "service: GetChildren error", <<>>, trace[c])
            /\ UNCHANGED inflight
       ELSE GetChildrenStep(c, Advance(reply[c][1].val, <<>>), reply[c][1].val)
    /\ Take(c)
    /\ UNCHANGED <<Error, SignalHandlers, arg, retarg, brokerVars, serveVars, codecVars>>
GetChildrenType(c) ==
    /\ Returned(c, "GetChildren.type")
    /\ \E initOk \in BOOLEAN :
        LET d == Decoded(reply[c][1], loc[c].env, initOk)
        IN  IF d.st = "panic"
            THEN Crash(c, trace[c]) /\ UNCHANGED inflight
            ELSE IF d.st = "err"
            THEN Finish(c, "GetChildren", "service: Could not convert node", <<>>, trace[c])
                 /\ UNCHANGED inflight
            ELSE GetChildrenStep(c, Advance(loc[c].todo, Append(loc[c].nodes, d.node)),
                                 loc[c].entries)
    /\ Take(c)
    /\ UNCHANGED <<Error, SignalHandlers, arg, retarg, brokerVars, serveVars, codecVars>>

(***************************************************************************)
(* The signal bus, client side.                                            *)
(***************************************************************************)
\* StoreHandler that keeps a handler already registered under the name
StoreHandlerKeepFirst(handlers, name, handle) ==
    IF handlers[name] = NoHandler THEN [handlers EXCEPT ![name] = handle] ELSE handlers

\* s.SignalHandlers[handler.Name()] = handler.Handle
StoreHandler(handlers, name, handle) == [handlers EXCEPT ![name] = handle]

\* HandlersAfterConnect that stores the handler before it looks at the error
HandlersAfterConnectEager(handlers, err, name, handle) ==
    StoreHandler(handlers, name, handle)

\* the handler table after the Monsti.ConnectSignal call returned err
HandlersAfterConnect(handlers, err, name, handle) ==
    IF err # Nil THEN handlers ELSE StoreHandler(handlers, name, handle)

\* AddSignalHandler: the handler is stored once Monsti.ConnectSignal succeeded
AddSignalHandler(c) ==
    \E name \in Signals, handle \in HandlerIds :
        UnaryBegin(c, "AddSignalHandler", "Monsti.ConnectSignal",
                   [Id |-> c, Signal |-> name],
                   [k |-> "handler", name |-> name, handle |-> handle], Error[c])
AddSignalHandlerReturn(c) ==
    /\ Returned(c, "AddSignalHandler")
    /\ IF reply[c][1].err # Nil
       THEN Finish(c, "AddSignalHandler", "service: Monsti.ConnectSignal error", <<>>,
                   trace[c])
       ELSE /\ Finish(c, "AddSignalHandler", Nil, <<>>, trace[c])
    /\ SignalHandlers' =
         [SignalHandlers EXCEPT
            ![c] = HandlersAfterConnect(@, reply[c][1].err, arg[c].name, arg[c].handle)]
    /\ Take(c)
    /\ UNCHANGED <<Error, arg, retarg, inflight, brokerVars, serveVars, codecVars>>

\* the zero value of the element type of the caller's result collection
Zero == "zero"

\* DecodeAnswers that ignores the last answer
DecodeAnswersDropLast(answers) ==
    [err |-> Nil,
     out |-> [i \in 1 .. (Len(answers) - 1) |-> GobDecode(answers[i]).Wrap]]

\* the loop of EmitSignal over the answers: the collection is first replaced by
\* len(ret) zero values, then filled up to the first answer that fails to decode
RECURSIVE FirstBad(_, _)
FirstBad(answers, i) ==
    IF i > Len(answers)
    THEN 0
    ELSE IF GobDecode(answers[i]).err # Nil THEN i ELSE FirstBad(answers, i + 1)

DecodeAnswers(answers) ==
    LET bad == FirstBad(answers, 1)
    IN  [err |-> IF bad = 0 THEN Nil ELSE "service: Could not decode signal return value",
         out |-> [i \in 1 .. Len(answers) |->
                    IF bad = 0 \/ i < bad THEN GobDecode(answers[i]).Wrap ELSE Zero]]

EmitSignal(c) ==
    /\ pc[c] = "idle"
    /\ \E name \in Signals, a \in SigValues \cup {Unencodable} :
        /\ arg' = [arg EXCEPT ![c] = [k |-> "emit", name |-> name, args |-> a]]
        /\ IF Error[c] # Nil
           THEN Finish(c, "EmitSignal", Error[c], <<>>, <<>>) /\ UNCHANGED inflight
           ELSE IF GobEncode(a).err # Nil
           THEN Finish(c, "EmitSignal", "service: Could not encode signal argumens",
                       <<>>, <<>>)
                /\ UNCHANGED inflight
           ELSE Issue(c, "EmitSignal", "Monsti.EmitSignal",
                      [Name |-> name, Args |-> GobEncode(a).bytes], "EmitSignal", <<>>,
                      NoLoc)
    /\ UNCHANGED <<Error, SignalHandlers, retarg, reply, brokerVars, serveVars, codecVars>>
EmitSignalReturn(c) ==
    /\ Returned(c, "EmitSignal")
    /\ IF reply[c][1].err # Nil
       THEN /\ Finish(c, "EmitSignal", "service: Monsti.EmitSignal error", <<>>, trace[c])
            /\ UNCHANGED retarg
       ELSE /\ Finish(c, "EmitSignal", DecodeAnswers(reply[c][1].val).err, <<>>, trace[c])
            /\ retarg' = [retarg EXCEPT ![c] = DecodeAnswers(reply[c][1].val).out]
    /\ Take(c)
    /\ UNCHANGED <<Error, SignalHandlers, arg, inflight, brokerVars, serveVars, codecVars>>

\* what a handler may do with its argument
HandlerOutcomes ==
    {[err |-> Nil, val |-> v] : v \in SigValues \cup {Unencodable}}
        \cup {[err |-> "handler failed", val |-> Nil]}

\* LookupHandler that takes a handler registered under any name
LookupAnyHandler(handlers, name) ==
    IF \E n \in Signals : n # name /\ handlers[n] # NoHandler
    THEN handlers[CHOOSE n \in Signals : n # name /\ handlers[n] # NoHandler]
    ELSE handlers[name]

\* s.SignalHandlers[signal.Name]: a missing key yields the nil func
LookupHandler(handlers, name) == handlers[name]

DispatchEv(signal) == [ev |-> "dispatch", what |-> signal.Name, data |-> signal.Args]

\* WaitSignal that sends Monsti.FinishSignal without awaiting the dispatch
WaitSignalEager(c) ==
    /\ pc[c] = "idle"
    /\ Error[c] = Nil
    /\ pc' = [pc EXCEPT ![c] = "WaitSignal"]
    /\ inflight' = [inflight EXCEPT ![c] =
                      @ \o <<[proc |-> "Monsti.WaitSignal", arg |-> <<c>>],
                             [proc |-> "Monsti.FinishSignal", arg |-> <<c>>]>>]
    /\ UNCHANGED <<Error, SignalHandlers, arg, loc, ret, retarg, trace, reply, brokerVars, serveVars, codecVars>>

\* WaitSignal up to the reply of Monsti.WaitSignal
WaitSignal(c) ==
    UnaryBegin(c, "WaitSignal", "Monsti.WaitSignal", <<c>>, NoArg, Error[c])
\* WaitSignal from the reply of Monsti.WaitSignal to the call of
\* Monsti.FinishSignal: decode the argument, run the handler, encode its result
WaitSignalDispatch(c) ==
    /\ Returned(c, "WaitSignal")
    /\ LET r == reply[c][1]
       IN  IF r.err # Nil
           THEN Finish(c, "WaitSignal", "service: Monsti.WaitSignal error", <<>>, trace[c])
                /\ UNCHANGED inflight
           ELSE LET signal == r.val
                    a == GobDecode(signal.Args)
                    h == LookupHandler(SignalHandlers[c], signal.Name)
                    tr == Append(trace[c], DispatchEv(signal))
                IN  IF a.err # Nil
                    THEN Finish(c, "WaitSignal", "service: Could not decode signal argumens",
                                <<>>, tr)
                         /\ UNCHANGED inflight
                    ELSE IF h = NoHandler
                    THEN Crash(c, tr) /\ UNCHANGED inflight
                    ELSE \E out \in HandlerOutcomes :
                           LET trh == Append(tr, HandlerEv(signal.Name, <<h, a.Wrap, out>>))
                           IN  IF out.err # Nil
                               THEN Finish(c, "WaitSignal",
                                           "service: Signal handler returned error", <<>>, trh)
                                    /\ UNCHANGED inflight
                               ELSE IF GobEncode(out.val).err # Nil
                               THEN Finish(c, "WaitSignal",
                                           "service: Could not encode signal return value",
                                           <<>>, trh)
                                    /\ UNCHANGED inflight
                               ELSE Issue(c, "WaitSignal", "Monsti.FinishSignal",
                                          [Id |-> c, Ret |-> GobEncode(out.val).bytes],
                                          "WaitSignal.finish", trh, NoLoc)
    /\ Take(c)
    /\ UNCHANGED <<Error, SignalHandlers, arg, retarg, brokerVars, serveVars, codecVars>>
WaitSignalReturn(c) ==
    /\ Returned(c, "WaitSignal.finish")
    /\ IF reply[c][1].err # Nil
       THEN Finish(c, "WaitSignal", "service: Monsti.FinishSignal error", <<>>, trace[c])
       ELSE Finish(c, "WaitSignal", Nil, <<>>, trace[c])
    /\ Take(c)
    /\ UNCHANGED <<Error, SignalHandlers, arg, retarg, inflight, brokerVars, serveVars, codecVars>>

(***************************************************************************)
(* Spec: one client, the replies of the transport chosen by the            *)
(* environment.                                                            *)
(***************************************************************************)
RECURSIVE SeqsUpTo(_, _)
SeqsUpTo(S, n) ==
    IF n = 0
    THEN {<<>>}
    ELSE SeqsUpTo(S, n - 1) \cup {Append(q, x) : q \in SeqsUpTo(S, n - 1), x \in S}

\* the values the broker may reply to a call
ReplyVals(call) ==
    CASE call.proc = "Monsti.GetNode" -> Payloads
      [] call.proc = "Monsti.GetChildren" -> SeqsUpTo(Payloads, MaxReply)
      [] call.proc = "Monsti.GetNodeType" -> NodeTypes
      [] call.proc = "Monsti.GetNodeData" -> {EmptyData, <<"blob">>}
      [] call.proc = "Monsti.GetSiteConfig" ->
            {EmptyData, MalformedData, JsonMarshal("config")}
      [] call.proc = "Monsti.GetRequest" -> {[Id |-> id] : id \in ReqIds}
      [] call.proc = "Monsti.GetNodeTypes" -> {<<"page">>}
      [] call.proc = "Monsti.GetAddableNodeTypes" -> {<<>>, <<"page">>}
      [] call.proc = "Monsti.WaitSignal" -> [Name : Signals, Args : SigBytes]
      [] call.proc = "Monsti.EmitSignal" -> SeqsUpTo(SigBytes, MaxReply)
      [] OTHER -> {Ack}

\* the transport delivers the reply of the oldest outstanding call, or fails it
EnvReply(c) ==
    /\ inflight[c] # <<>>
    /\ reply[c] = <<>>
    /\ \E r \in {[err |-> RpcErr, val |-> Ack]}
            \cup {[err |-> Nil, val |-> v] : v \in ReplyVals(Head(inflight[c]))} :
         reply' = [reply EXCEPT ![c] = <<r>>]
    /\ inflight' = [inflight EXCEPT ![c] = Tail(@)]
    /\ UNCHANGED <<Error, SignalHandlers, pc, arg, loc, ret, retarg, trace, brokerVars, serveVars, codecVars>>

NoEmission == [k |-> "none"]

Requests == 1 .. NumRequests
NoSession == 0

\* no client has connected, the broker knows no signal, no request has
\* arrived and the pool is empty
Init ==
    /\ Error = [c \in Clients |-> Nil]
    /\ SignalHandlers = [c \in Clients |-> [n \in Signals |-> NoHandler]]
    /\ pc = [c \in Clients |-> "new"]
    /\ arg = [c \in Clients |-> NoArg]
    /\ loc = [c \in Clients |-> NoLoc]
    /\ ret = [c \in Clients |-> NoRet]
    /\ retarg = [c \in Clients |-> <<>>]
    /\ trace = [c \in Clients |-> <<>>]
    /\ inflight = [c \in Clients |-> <<>>]
    /\ reply = [c \in Clients |-> <<>>]
    /\ subscriptions = {}
    /\ emission = NoEmission
    /\ hpc = [r \in Requests |-> "start"]
    /\ Serv = [r \in Requests |-> NoSession]
    /\ Action = [r \in Requests |-> <<>>]
    /\ defers = [r \in Requests |-> <<>>]
    /\ response = [r \in Requests |-> "none"]
    /\ hlog = [r \in Requests |-> <<>>]
    /\ idle = {}
    /\ created = 0
    /\ cnode = [n \in NodeIds |-> MkNode("About", "Hello")]
    /\ Path = [n \in NodeIds |-> "/about"]
    /\ typeArr = [id \in {"page", "bad"} |-> IF id = "page" THEN PageType.Fields ELSE BadType.Fields]
    /\ cpc = [t \in Threads |-> "idle"]
    /\ cloc = [t \in Threads |-> NoLoc]
    /\ cres = [t \in Threads |-> NoRes]

Next ==
    \/ Connect(Self)
    \/ ModuleInitDone(Self) \/ ModuleInitDoneReturn(Self)
    \/ WriteNode(Self) \/ WriteNodeReturn(Self)
    \/ GetNode(Self) \/ GetNodeReply(Self) \/ GetNodeReturn(Self)
    \/ GetChildren(Self) \/ GetChildrenReply(Self) \/ GetChildrenType(Self)
    \/ GetNodeData(Self) \/ GetNodeDataReturn(Self)
    \/ WriteNodeData(Self) \/ WriteNodeDataReturn(Self)
    \/ RemoveNode(Self) \/ RemoveNodeReturn(Self)
    \/ RenameNode(Self) \/ RenameNodeReturn(Self)
    \/ GetSiteConfig(Self) \/ GetSiteConfigReturn(Self)
    \/ RegisterNodeType(Self) \/ RegisterNodeTypeReturn(Self)
    \/ GetNodeType(Self) \/ GetNodeTypeReturn(Self)
    \/ GetNodeTypes(Self) \/ GetNodeTypesReturn(Self)
    \/ GetAddableNodeTypes(Self) \/ GetAddableNodeTypesReturn(Self)
    \/ GetRequest(Self) \/ GetRequestReturn(Self)
    \/ PublishService(Self) \/ PublishServiceReturn(Self)
    \/ SendMail(Self) \/ SendMailReturn(Self)
    \/ AddSignalHandler(Self) \/ AddSignalHandlerReturn(Self)
    \/ EmitSignal(Self) \/ EmitSignalReturn(Self)
    \/ WaitSignal(Self) \/ WaitSignalDispatch(Self) \/ WaitSignalReturn(Self)
    \/ EnvReply(Self)

Spec == Init /\ [][Next]_vars

(***************************************************************************)
(* SpecSignal: the emitter, the waiters and the broker's signal procedures *)
(* over a reliable transport. It starts when every waiter has registered a *)
(* handler for the signal X.                                               *)
(***************************************************************************)
Subscribers(name) == {c \in Clients : <<c, name>> \in subscriptions}

\* Monsti.EmitSignal arrives: the emission is addressed to every client that
\* is registered for the name
BrokerEmitSignal ==
    \E e \in Clients :
        /\ inflight[e] # <<>>
        /\ Head(inflight[e]).proc = "Monsti.EmitSignal"
        /\ emission.k # "on"
        /\ emission' = [k |-> "on", from |-> e,
                        name |-> Head(inflight[e]).arg.Name,
                        args |-> Head(inflight[e]).arg.Args,
                        subs |-> Subscribers(Head(inflight[e]).arg.Name),
                        targets |-> Subscribers(Head(inflight[e]).arg.Name),
                        waiting |-> {}, rets |-> <<>>]
        /\ inflight' = [inflight EXCEPT ![e] = Tail(@)]
        /\ UNCHANGED <<processVars, reply, subscriptions, serveVars, codecVars>>

\* Monsti.WaitSignal of a client the emission is addressed to returns the
\* signal; the call of any other client stays blocked
BrokerWaitSignal(c) ==
    /\ inflight[c] # <<>>
    /\ Head(inflight[c]).proc = "Monsti.WaitSignal"
    /\ emission.k = "on"
    /\ c \in emission.targets
    /\ reply' = [reply EXCEPT
                   ![c] = <<[err |-> Nil,
                             val |-> [Name |-> emission.name, Args |-> emission.args]]>>]
    /\ inflight' = [inflight EXCEPT ![c] = Tail(@)]
    /\ emission' = [emission EXCEPT !.targets = @ \ {c}, !.waiting = @ \cup {c}]
    /\ UNCHANGED <<processVars, subscriptions, serveVars, codecVars>>

\* Monsti.FinishSignal: the broker collects the result of a client it waits
\* for; `runs` notes the handler runs of that client's WaitSignal call
BrokerFinishSignal(c) ==
    /\ inflight[c] # <<>>
    /\ Head(inflight[c]).proc = "Monsti.FinishSignal"
    /\ reply' = [reply EXCEPT ![c] = <<[err |-> Nil, val |-> Ack]>>]
    /\ inflight' = [inflight EXCEPT ![c] = Tail(@)]
    /\ IF emission.k = "on" /\ c \in emission.waiting
       THEN emission' =
                [emission EXCEPT
                   !.waiting = @ \ {c},
                   !.rets = Append(@, [from |-> c, ret |-> Head(inflight[c]).arg.Ret,
                                       runs |-> HandlerRuns(trace[c])])]
       ELSE UNCHANGED emission
    /\ UNCHANGED <<processVars, subscriptions, serveVars, codecVars>>

\* every addressed client has replied: Monsti.EmitSignal returns the results
BrokerEmitDone ==
    /\ emission.k = "on"
    /\ emission.targets = {}
    /\ emission.waiting = {}
    /\ reply' = [reply EXCEPT
                   ![emission.from] =
                      <<[err |-> Nil,
                         val |-> [i \in 1 .. Len(emission.rets) |-> emission.rets[i].ret]]>>]
    /\ emission' = [emission EXCEPT !.k = "done"]
    /\ UNCHANGED <<processVars, inflight, subscriptions, serveVars, codecVars>>

InitSignal ==
    /\ Error = [c \in Clients |-> Nil]
    /\ SignalHandlers =
         [c \in Clients |->
            [n \in Signals |-> IF c \in Waiters /\ n = "X" THEN "h1" ELSE NoHandler]]
    /\ pc = [c \in Clients |-> "idle"]
    /\ arg = [c \in Clients |-> NoArg]
    /\ loc = [c \in Clients |-> NoLoc]
    /\ ret = [c \in Clients |-> NoRet]
    /\ retarg = [c \in Clients |-> <<>>]
    /\ trace = [c \in Clients |-> <<>>]
    /\ inflight = [c \in Clients |-> <<>>]
    /\ reply = [c \in Clients |-> <<>>]
    /\ subscriptions = {<<w, "X">> : w \in Waiters}
    /\ emission = NoEmission
    /\ hpc = [r \in Requests |-> "start"]
    /\ Serv = [r \in Requests |-> NoSession]
    /\ Action = [r \in Requests |-> <<>>]
    /\ defers = [r \in Requests |-> <<>>]
    /\ response = [r \in Requests |-> "none"]
    /\ hlog = [r \in Requests |-> <<>>]
    /\ idle = {}
    /\ created = 0
    /\ cnode = [n \in NodeIds |-> MkNode("About", "Hello")]
    /\ Path = [n \in NodeIds |-> "/about"]
    /\ typeArr = [id \in {"page", "bad"} |-> IF id = "page" THEN PageType.Fields ELSE BadType.Fields]
    /\ cpc = [t \in Threads |-> "idle"]
    /\ cloc = [t \in Threads |-> NoLoc]
    /\ cres = [t \in Threads |-> NoRes]

NextSignal ==
    \/ EmitSignal(Emitter)
    \/ EmitSignalReturn(Emitter)
    \/ \E w \in Waiters : WaitSignal(w)
    \/ \E w \in Waiters : WaitSignalDispatch(w)
    \/ \E w \in Waiters : WaitSignalReturn(w)
    \/ \E w \in Waiters : BrokerWaitSignal(w)
    \/ \E w \in Waiters : BrokerFinishSignal(w)
    \/ BrokerEmitSignal
    \/ BrokerEmitDone

SpecSignal == InitSignal /\ [][NextSignal]_vars

(***************************************************************************)
(* SpecServe: nodeHandler.ServeHTTP for NumRequests concurrent requests.   *)
(***************************************************************************)
\* request paths, as sequences of characters
ActLogin == <<"l", "o", "g", "i", "n">>
ActLogout == <<"l", "o", "g", "o", "u", "t">>
ActAdd == <<"a", "d", "d">>
ActRemove == <<"r", "e", "m", "o", "v", "e">>
ActEdit == <<"e", "d", "i", "t">>
Paths ==
    {<<"/">>, <<"/", "a">>, <<"/", "a", "/">>, <<"/", "%">>, <<"/", "a", "/", "@", "@">>}
        \cup {<<"/", "@", "@">> \o a : a \in {ActLogin, ActLogout, ActAdd, ActRemove}}
        \cup {<<"/", "a", "/", "@", "@">> \o ActEdit}
Hosts == {"known.example", "unknown.example"}
\* nodeHandler.Hosts
KnownHosts == {"known.example"}

\* the last of strings.Split(path, "/")
LastSlash(path) ==
    IF \E i \in 1 .. Len(path) : path[i] = "/"
    THEN CHOOSE i \in 1 .. Len(path) : path[i] = "/" /\ \A j \in (i + 1) .. Len(path) : path[j] # "/"
    ELSE 0
LastToken(path) == SubSeq(path, LastSlash(path) + 1, Len(path))

\* splitAction: the node path and the @@action of a URL path
splitAction(path) ==
    LET last == LastToken(path)
        action == IF Len(last) > 2 /\ last[1] = "@" /\ last[2] = "@"
                  THEN SubSeq(last, 3, Len(last))
                  ELSE <<>>
        cut == SubSeq(path, 1, Len(path) - (Len(action) + 3))
    IN  [nodePath |-> IF Len(action) > 0
                      THEN IF Len(cut) = 0 THEN <<"/">> ELSE cut
                      ELSE path,
         action |-> action]

\* url.Parse rejects a "%" that no two hex digits follow
UrlParseFails(p) == \E i \in 1 .. Len(p) : p[i] = "%"

Ev(e, what, sess) == [ev |-> e, what |-> what, s |-> sess]

\* the deferred calls run last-in-first-out: context.Clear, Sessions.Free (the
\* session goes back to the pool), the recover handler (a panic becomes the
\* status 500)
RECURSIVE RunDeferred(_, _)
RunDeferred(stack, st) ==
    IF stack = <<>>
    THEN st
    ELSE LET top == stack[Len(stack)]
             rest == SubSeq(stack, 1, Len(stack) - 1)
         IN  IF top = "Free"
             THEN RunDeferred(rest, [st EXCEPT !.idle = @ \cup {st.serv},
                                               !.log = Append(@, Ev("Free", "Sessions", st.serv))])
             ELSE IF top = "recover" /\ st.panic
             THEN RunDeferred(rest, [st EXCEPT !.status = "500", !.panic = FALSE])
             ELSE RunDeferred(rest, st)

\* ServeHTTP returns or panics: its deferred calls run, the goroutine ends and
\* its locals are gone
Leave(r, stack, log, status, panic) ==
    LET end == RunDeferred(stack, [idle |-> idle, serv |-> Serv[r], log |-> log,
                                   status |-> status, panic |-> panic])
    IN  /\ hpc' = [hpc EXCEPT ![r] = IF end.panic THEN "crashed" ELSE "done"]
        /\ response' = [response EXCEPT ![r] = end.status]
        /\ hlog' = [hlog EXCEPT ![r] = end.log]
        /\ idle' = end.idle
        /\ defers' = [defers EXCEPT ![r] = <<>>]
        /\ Serv' = [Serv EXCEPT ![r] = NoSession]
        /\ Action' = [Action EXCEPT ![r] = <<>>]

DeferFreeMissing(stack) == stack

\* defer h.Sessions.Free(c.Serv)
DeferFree(stack) == Append(stack, "Free")

\* PoolTake that leaves the session it hands out in the idle set
PoolTakeKeeps(pool, sess) == pool

\* SessionPool.New on an idle session: the session leaves the idle set
PoolTake(pool, sess) == pool \ {sess}

\* the recover handler is deferred, then h.Sessions.New(): an idle session if
\* there is one, else a new one, whose connection may fail; the panic on a
\* failed New comes before Free is deferred
ServeAcquire(r) ==
    /\ hpc[r] = "start"
    /\ \/ /\ idle # {}
          /\ \E sess \in idle :
                /\ Serv' = [Serv EXCEPT ![r] = sess]
                /\ idle' = PoolTake(idle, sess)
                /\ hlog' = [hlog EXCEPT ![r] = Append(@, Ev("New", "Sessions", sess))]
          /\ defers' = [defers EXCEPT ![r] = DeferFree(<<"recover">>)]
          /\ hpc' = [hpc EXCEPT ![r] = "acquired"]
          /\ UNCHANGED <<created, response, Action>>
       \/ /\ idle = {}
          /\ Serv' = [Serv EXCEPT ![r] = created + 1]
          /\ created' = created + 1
          /\ hlog' = [hlog EXCEPT ![r] = Append(@, Ev("New", "Sessions", created + 1))]
          /\ defers' = [defers EXCEPT ![r] = DeferFree(<<"recover">>)]
          /\ hpc' = [hpc EXCEPT ![r] = "acquired"]
          /\ UNCHANGED <<idle, response, Action>>
       \/ /\ idle = {}
          /\ Leave(r, <<"recover">>, Append(hlog[r], Ev("NewFailed", "Sessions", NoSession)),
                   "none", TRUE)
          /\ UNCHANGED created
    /\ UNCHANGED <<clientVars, brokerVars, codecVars>>

\* from splitAction to the lookup of the site
ServeRoute(r) ==
    /\ hpc[r] = "acquired"
    /\ \E path \in Paths, host \in Hosts :
        LET sp == splitAction(path)
        IN  IF Len(sp.action) = 0 /\ sp.nodePath[Len(sp.nodePath)] # "/"
            THEN IF UrlParseFails(Append(sp.nodePath, "/"))
                 THEN Leave(r, defers[r], hlog[r], "none", TRUE)
                 ELSE Leave(r, defers[r], hlog[r], "303", FALSE)
            ELSE IF host \notin KnownHosts
            THEN Leave(r, defers[r], hlog[r], "none", TRUE)
            ELSE /\ hpc' = [hpc EXCEPT ![r] = "site"]
                 /\ Action' = [Action EXCEPT ![r] = sp.action]
                 /\ defers' = [defers EXCEPT ![r] = Append(@, "context.Clear")]
                 /\ hlog' = [hlog EXCEPT ![r] = Append(@, Ev("Site", "resolved", NoSession))]
                 /\ UNCHANGED <<Serv, response, idle>>
    /\ UNCHANGED <<created, clientVars, brokerVars, codecVars>>

\* c.Serv.Data().GetNode(site, nodePath)
ServeGetNode(r) ==
    /\ hpc[r] = "site"
    /\ \E found \in BOOLEAN :
        IF found
        THEN /\ hpc' = [hpc EXCEPT ![r] = "permission"]
             /\ hlog' = [hlog EXCEPT ![r] = @ \o <<Ev("Use", "GetNode", Serv[r]),
                                                    Ev("Node", "found", NoSession)>>]
             /\ UNCHANGED <<Serv, Action, response, defers, idle>>
        ELSE Leave(r, defers[r],
                   hlog[r] \o <<Ev("Use", "GetNode", Serv[r]), Ev("Node", "missing", NoSession)>>,
                   "404", FALSE)
    /\ UNCHANGED <<created, clientVars, brokerVars, codecVars>>

\* PermissionDenied that lets every request through
PermissionDeniedNever(allowed) == FALSE

\* if !checkPermission(c.Action, c.UserSession)
PermissionDenied(allowed) == ~allowed

\* checkPermission(c.Action, c.UserSession)
ServePermission(r) ==
    /\ hpc[r] = "permission"
    /\ \E allowed \in BOOLEAN :
        LET log == Append(hlog[r], Ev("Permission", IF allowed THEN "passed" ELSE "failed",
                                      NoSession))
        IN  IF PermissionDenied(allowed)
            THEN Leave(r, defers[r], log, "401", FALSE)
            ELSE /\ hpc' = [hpc EXCEPT ![r] = "action"]
                 /\ hlog' = [hlog EXCEPT ![r] = log]
                 /\ UNCHANGED <<Serv, Action, response, defers, idle>>
    /\ UNCHANGED <<created, clientVars, brokerVars, codecVars>>

\* what an action handler does: it panics or it writes a response, before or
\* after it used the session (RequestNode does to render the body in the
\* master template)
ActionOutcomes == {[use |-> u, panic |-> pn] : u \in BOOLEAN, pn \in BOOLEAN}

\* switch c.Action: every case, the default included, calls one action handler
\* with the request context, and ServeHTTP returns when the handler does
ServeAction(r) ==
    /\ hpc[r] = "action"
    /\ \E o \in ActionOutcomes :
        Leave(r, defers[r],
              Append(hlog[r], Ev("Action", "handler", NoSession))
                  \o (IF o.use THEN <<Ev("Use", "handler", Serv[r])>> ELSE <<>>),
              IF o.panic THEN "none" ELSE "200", o.panic)
    /\ UNCHANGED <<created, clientVars, brokerVars, codecVars>>

NextServe ==
    \/ \E r \in Requests : ServeAcquire(r)
    \/ \E r \in Requests : ServeRoute(r)
    \/ \E r \in Requests : ServeGetNode(r)
    \/ \E r \in Requests : ServePermission(r)
    \/ \E r \in Requests : ServeAction(r)

InitHandler ==
    /\ Error = [c \in Clients |-> Nil]
    /\ SignalHandlers = [c \in Clients |-> [n \in Signals |-> NoHandler]]
    /\ pc = [c \in Clients |-> "new"]
    /\ arg = [c \in Clients |-> NoArg]
    /\ loc = [c \in Clients |-> NoLoc]
    /\ ret = [c \in Clients |-> NoRet]
    /\ retarg = [c \in Clients |-> <<>>]
    /\ trace = [c \in Clients |-> <<>>]
    /\ inflight = [c \in Clients |-> <<>>]
    /\ reply = [c \in Clients |-> <<>>]
    /\ subscriptions = {}
    /\ emission = NoEmission
    /\ hpc = [r \in Requests |-> "start"]
    /\ Serv = [r \in Requests |-> NoSession]
    /\ Action = [r \in Requests |-> <<>>]
    /\ defers = [r \in Requests |-> <<>>]
    /\ response = [r \in Requests |-> "none"]
    /\ hlog = [r \in Requests |-> <<>>]
    /\ idle = {}
    /\ created = 0
    /\ cnode = [n \in NodeIds |-> MkNode("About", "Hello")]
    /\ Path = [n \in NodeIds |-> "/about"]
    /\ typeArr = [id \in {"page", "bad"} |-> IF id = "page" THEN PageType.Fields ELSE BadType.Fields]
    /\ cpc = [t \in Threads |-> "idle"]
    /\ cloc = [t \in Threads |-> NoLoc]
    /\ cres = [t \in Threads |-> NoRes]

SpecServe == InitHandler /\ [][NextServe]_vars

(***************************************************************************)
(* Properties of one client (Spec).                                        *)
(***************************************************************************)
Failed(c) == Error[c] # Nil
Idle(c) == pc[c] = "idle"
LastOp(c, o) == Idle(c) /\ ret[c].op = o

\* C1: once a client's stored Error is set, every operation on it returns
\* that stored error to its caller.
C1_StickyErrorReturned ==
    \A c \in Clients :
        (Failed(c) /\ Idle(c) /\ ret[c].op # "none") => ret[c].err = Error[c]

\* C2: while a client is in the sticky-error state no operation performs a
\* transport call: nothing is outstanding on the transport and the operation
\* has issued no call.
C2_NoTransportWhenFailed ==
    \A c \in Clients :
        Failed(c) => inflight[c] = <<>> /\ reply[c] = <<>> /\ Calls(trace[c]) = <<>>

C2_Witness == Failed(Self) /\ LastOp(Self, "WaitSignal")

\* the errors of an operation that failed by itself: anything but nil and the
\* stored connection error
PerCallFailed(c) ==
    Idle(c) /\ ret[c].op # "none" /\ ret[c].err \notin {Nil, ConnErr}
\* the failures of an operation before its first call: encoding the payload
EncodeFailures ==
    {"service: Could not convert node", "service: Could not encode signal argumens"}

\* C3: an operation that fails by itself (the call fails, a payload does not
\* encode or decode, the signal handler fails) returns an error and leaves the
\* sticky error unset, and the next operation of the client goes to the
\* transport again (unless its own payload does not encode).
C3_PerCallErrorsStayLocal ==
    /\ [](\A c \in Clients : PerCallFailed(c) => Error[c] = Nil)
    /\ [][\A c \in Clients :
            (PerCallFailed(c) /\ <<pc[c], ret[c], arg[c]>>' # <<pc[c], ret[c], arg[c]>>)
                => \/ Len(inflight'[c]) = 1 /\ Len(Calls(trace'[c])) = 1
                   \/ Idle(c)' /\ ret'[c].err \in EncodeFailures]_vars

\* an EmitSignal failed on an answer that did not decode (it left a zero value
\* in the caller's collection) and a later GetNode has its call outstanding
C3_Witness ==
    /\ pc[Self] = "GetNode"
    /\ Len(inflight[Self]) = 1
    /\ loc[Self] = NoLoc
    /\ retarg[Self] # <<>>
    /\ Zero \in {retarg[Self][i] : i \in 1 .. Len(retarg[Self])}

\* C5: every dispatch that WaitSignal received is followed by a FinishSignal
\* of that client, also when the handler returned an error.
C5_DispatchIsFinished ==
    \A c \in Clients :
        (LastOp(c, "WaitSignal") /\ Dispatches(trace[c]) # <<>>)
            => CallsOf(trace[c], "Monsti.FinishSignal") # <<>>

\* C6: a dispatch under a name without a local handler makes WaitSignal
\* return an error; the calling process does not crash.
C6_NoHandlerIsAnError ==
    \A c \in Clients :
        (Dispatches(trace[c]) # <<>>
            /\ SignalHandlers[c][Dispatches(trace[c])[1].what] = NoHandler
            /\ GobDecode(Dispatches(trace[c])[1].data).err = Nil)
            => pc[c] # "crashed"

\* C7: a WaitSignal call that returns without error issued one WaitSignal
\* request, then ran once the handler registered under the delivered name on
\* the decoded argument, then sent one FinishSignal with the handler's encoded
\* result, in this order, and did nothing else.
C7_OneDispatchPerWait ==
    \A c \in Clients :
        (LastOp(c, "WaitSignal") /\ ret[c].err = Nil)
            => /\ Len(trace[c]) = 4
               /\ trace[c][1] = CallEv("Monsti.WaitSignal", <<c>>)
               /\ trace[c][2].ev = "dispatch"
               /\ trace[c][3].ev = "handler"
               /\ trace[c][3].what = trace[c][2].what
               /\ trace[c][3].data[1] = SignalHandlers[c][trace[c][2].what]
               /\ trace[c][3].data[1] # NoHandler
               /\ trace[c][3].data[2] = GobDecode(trace[c][2].data).Wrap
               /\ trace[c][3].data[3].err = Nil
               /\ trace[c][4] =
                    CallEv("Monsti.FinishSignal",
                           [Id |-> c, Ret |-> GobEncode(trace[c][3].data[3].val).bytes])

C7_Witness ==
    /\ LastOp(Self, "WaitSignal")
    /\ ret[Self].err = Nil
    /\ SignalHandlers[Self]["X"] = "h1"
    /\ SignalHandlers[Self]["Y"] = "h2"
    /\ trace[Self][2].what = "Y"

\* C9: a client keeps one handler per signal name, the one of the most recent
\* successful AddSignalHandler for that name; a registration replaces the
\* handler of its own name and changes no other.
C9_LatestHandlerPerName ==
    /\ [](\A c \in Clients :
            (LastOp(c, "AddSignalHandler") /\ ret[c].err = Nil)
                => SignalHandlers[c][arg[c].name] = arg[c].handle)
    /\ [][\A c \in Clients : \A n \in Signals :
            SignalHandlers'[c][n] =
                IF pc[c] = "AddSignalHandler" /\ Idle(c)' /\ ret'[c].err = Nil
                   /\ n = arg[c].name
                THEN arg[c].handle
                ELSE SignalHandlers[c][n]]_vars

C9_Witness ==
    /\ LastOp(Self, "AddSignalHandler")
    /\ ret[Self].err = Nil
    /\ arg[Self].name = "X"
    /\ SignalHandlers[Self]["X"] = "h2"
    /\ SignalHandlers[Self]["Y"] = "h1"

\* C10: a client used by one thread has at most one call outstanding: the next
\* call of an operation goes out only once the reply of the previous one is back.
C10_OneCallOutstanding ==
    \A c \in Clients :
        /\ Len(inflight[c]) + Len(reply[c]) <= 1
        /\ (pc[c] \in {"idle", "new", "crashed"}) => inflight[c] = <<>> /\ reply[c] = <<>>

C10_Witness ==
    /\ pc[Self] = "GetChildren.type"
    /\ Len(loc[Self].nodes) >= 1
    /\ Len(inflight[Self]) = 1
    /\ Len(Calls(trace[Self])) = 3

(***************************************************************************)
(* Properties of the signal bus (SpecSignal).                              *)
(***************************************************************************)
\* C8: an EmitSignal of a name for which N clients hold a handler and wait
\* returns N results; every one of the N clients ran its handler once for the
\* emission, on the emitted argument, and the results are the handlers' return
\* values; the emitter's call does not return while a handler has not replied.
C8_FanOutCollectsAll ==
    /\ (LastOp(Emitter, "EmitSignal") /\ ret[Emitter].err = Nil)
        => /\ emission.k = "done"
           /\ emission.subs = Subscribers(arg[Emitter].name)
           /\ Len(retarg[Emitter]) = Cardinality(emission.subs)
           /\ Len(emission.rets) = Cardinality(emission.subs)
           /\ {emission.rets[i].from : i \in 1 .. Len(emission.rets)} = emission.subs
           /\ \A i \in 1 .. Len(emission.rets) :
                LET r == emission.rets[i]
                IN  /\ Len(r.runs) = 1
                    /\ r.runs[1].what = arg[Emitter].name
                    /\ r.runs[1].data[1] = SignalHandlers[r.from][arg[Emitter].name]
                    /\ r.runs[1].data[2] = arg[Emitter].args
                    /\ r.runs[1].data[3].err = Nil
                    /\ r.runs[1].data[3].val = retarg[Emitter][i]
    /\ (pc[Emitter] = "EmitSignal" /\ reply[Emitter] # <<>>)
        => /\ emission.k = "done"
           /\ Len(emission.rets) = Cardinality(emission.subs)

C8_Witness ==
    /\ LastOp(Emitter, "EmitSignal")
    /\ ret[Emitter].err = Nil
    /\ arg[Emitter].name = "X"
    /\ Len(retarg[Emitter]) = NumWaiters
    /\ \E i, j \in 1 .. Len(retarg[Emitter]) : retarg[Emitter][i] # retarg[Emitter][j]

(***************************************************************************)
(* The session of a request                                                *)
(***************************************************************************)
EventsOf(r, e) == {i \in 1 .. Len(hlog[r]) : hlog[r][i].ev = e}
Left(r) == hpc[r] \in {"done", "crashed"}

\* C4: in ServeHTTP every successful Sessions.New is matched by exactly one
\* Sessions.Free of that same session on every exit path (return, redirect,
\* not found, unauthorized, panic after the acquire); a failed New is followed
\* by no Free, and the request does not use the session after its Free.
C4_AcquireMatchedByOneRelease ==
    \A r \in Requests :
        /\ Cardinality(EventsOf(r, "New")) <= 1
        /\ Cardinality(EventsOf(r, "Free")) <= Cardinality(EventsOf(r, "New"))
        /\ \A f \in EventsOf(r, "Free") :
              /\ \E n \in EventsOf(r, "New") : n < f /\ hlog[r][n].s = hlog[r][f].s
              /\ \A u \in EventsOf(r, "Use") : u < f
        /\ EventsOf(r, "NewFailed") # {} => EventsOf(r, "Free") = {}
        /\ Left(r) /\ EventsOf(r, "New") # {} => Cardinality(EventsOf(r, "Free")) = 1

\* a request that panicked in its action handler after it used its session,
\* beside a request whose Sessions.New failed
C4_Witness ==
    \E r \in Requests :
        /\ hpc[r] = "done" /\ response[r] = "500"
        /\ EventsOf(r, "New") # {} /\ EventsOf(r, "Action") # {}
        /\ EventsOf(r, "Use") # {} /\ EventsOf(r, "Free") # {}
        /\ \E q \in Requests : q # r /\ EventsOf(q, "NewFailed") # {} /\ Left(q)

\* the request holds a session: from its Sessions.New to its Sessions.Free
Holds(r) == Serv[r] # NoSession

\* C11: no session is held by two requests at the same time, under any
\* interleaving: a session a request holds is not idle and no other request
\* holds it; a Sessions.New issued when no session is idle returns a session
\* that did not exist before (or fails), it does not wait for one.
C11_NoSessionSharedByTwo ==
    /\ [](\A r \in Requests :
            Holds(r) => /\ Serv[r] \notin idle
                        /\ Serv[r] \in 1 .. created
                        /\ \A q \in Requests \ {r} : Serv[q] # Serv[r])
    /\ [][\A r \in Requests :
            (hpc[r] = "start" /\ hpc'[r] # "start" /\ idle = {})
                => \/ created' = created + 1 /\ Serv'[r] = created' /\ idle' = idle
                   \/ ~Holds(r)' /\ EventsOf(r, "NewFailed")' # {} /\ created' = created]_vars

\* two requests hold a session each at the same time: the second New found
\* no session idle and created one
C11_Witness ==
    \E r, q \in Requests :
        /\ Holds(r) /\ Holds(q) /\ r # q
        /\ created = 2 /\ idle = {}

(***************************************************************************)
(* The node codec called by threads: SpecCodec has one thread encode and   *)
(* decode its node and the payloads; SpecShared has NumThreads threads     *)
(* that each encode or decode their node or read the path of a node.       *)
(***************************************************************************)
\* append(a, extra...) where a has length n over the backing array arr: Go
\* writes into the array when the capacity suffices, else it copies
GoAppend(arr, n, extra) ==
    IF n + Len(extra) <= Len(arr)
    THEN [arr |-> [i \in 1 .. Len(arr) |->
                     IF i > n /\ i <= n + Len(extra) THEN extra[i - n] ELSE arr[i]],
          slice |-> [shared |-> TRUE, len |-> n + Len(extra), ids |-> <<>>]]
    ELSE [arr |-> arr,
          slice |-> [shared |-> FALSE, len |-> n + Len(extra),
                     ids |-> SubSeq(arr, 1, n) \o extra]]

\* the elements of a slice, read now
Elems(slice, arr) == IF slice.shared THEN SubSeq(arr, 1, slice.len) ELSE slice.ids

\* getNodeType: the type of that id, if there is one
Resolve(id) == {ty \in CodecTypes : ty.Id = id}

NoNode == 0
Res(op, n, st, err, data, node, ids, path) ==
    [op |-> op, n |-> n, st |-> st, err |-> err, data |-> data, node |-> node,
     ids |-> ids, path |-> path]

CodecReturn(t, res) ==
    /\ cres' = [cres EXCEPT ![t] = res]
    /\ cloc' = [cloc EXCEPT ![t] = NoLoc]
    /\ cpc' = [cpc EXCEPT ![t] = IF res.st = "panic" THEN "crashed" ELSE "idle"]

\* nodeToData, line 70: path := node.Path
EncodeBegin(t, n) ==
    /\ cpc[t] = "idle"
    /\ cpc' = [cpc EXCEPT ![t] = "enc.clear"]
    /\ cloc' = [cloc EXCEPT ![t] = [k |-> "encode", n |-> n, path |-> Path[n]]]
    /\ UNCHANGED <<cnode, Path, typeArr, cres, clientVars, brokerVars, serveVars>>

\* lines 71-74: node.Path = "", and the restore is deferred
EncodeClear(t) ==
    /\ cpc[t] = "enc.clear"
    /\ Path' = [Path EXCEPT ![cloc[t].n] = ""]
    /\ cpc' = [cpc EXCEPT ![t] = "enc.copy"]
    /\ UNCHANGED <<cnode, typeArr, cloc, cres, clientVars, brokerVars, serveVars>>

\* lines 76-79: outNode.Node = *node
EncodeCopy(t) ==
    /\ cpc[t] = "enc.copy"
    /\ cloc' = [cloc EXCEPT
                  ![t] = [k |-> "encode", n |-> @.n, path |-> @.path,
                          copy |-> [cnode[@.n] EXCEPT !.Path = Path[cloc[t].n]]]]
    /\ cpc' = [cpc EXCEPT ![t] = "enc.append"]
    /\ UNCHANGED <<cnode, Path, typeArr, cres, clientVars, brokerVars, serveVars>>

\* line 81: nodeFields := append(node.Type.Fields, node.LocalFields...)
EncodeAppend(t) ==
    /\ cpc[t] = "enc.append"
    /\ LET node == cnode[cloc[t].n]
           a == GoAppend(typeArr[node.Type.Id], Len(node.Type.Fields), node.LocalFields)
       IN  /\ typeArr' = [typeArr EXCEPT ![node.Type.Id] = a.arr]
           /\ cloc' = [cloc EXCEPT
                         ![t] = [k |-> "encode", n |-> @.n, path |-> @.path,
                                 copy |-> @.copy, nodeFields |-> a.slice]]
    /\ cpc' = [cpc EXCEPT ![t] = "enc.dump"]
    /\ UNCHANGED <<cnode, Path, cres, clientVars, brokerVars, serveVars>>

\* RestorePath that restores nothing
RestorePathSkipped(paths, n, path) == paths

\* the deferred func of nodeToData: node.Path = path
RestorePath(paths, n, path) == [paths EXCEPT ![n] = path]

\* lines 82-104 and the deferred restore: the loop over nodeFields, the
\* marshalling of outNode, the return (or the panic)
EncodeDump(t) ==
    /\ cpc[t] = "enc.dump"
    /\ LET l == cloc[t]
           ids == Elems(l.nodeFields, typeArr[l.copy.Type.Id])
           e == EncodeFields(l.copy, ids)
       IN  /\ CodecReturn(t, Res("encode", l.n, e.st, e.err, e.data, <<>>, ids, l.path))
           /\ Path' = RestorePath(Path, l.n, l.path)
    /\ UNCHANGED <<cnode, typeArr, clientVars, brokerVars, serveVars>>

\* the payloads the thread may decode: the given ones and the bytes its last
\* nodeToData returned (of says which node they encode)
DecodeInputs(t) ==
    {[data |-> d, of |-> NoNode] : d \in CodecPayloads}
        \cup (IF cres[t].op = "encode" /\ cres[t].st = "ok"
              THEN {[data |-> cres[t].data, of |-> cres[t].n]}
              ELSE {})

\* dataToNode, lines 135-154: the empty payload, json.Unmarshal, getNodeType,
\* InitFields, nodeFields := append(ret.Type.Fields, ret.LocalFields...)
DecodeBegin(t, inputs) ==
    /\ cpc[t] = "idle"
    /\ \E in \in inputs, found \in BOOLEAN, initOk \in BOOLEAN :
        LET p == ParseNode(in.data)
            fail(msg) == Res("decode", in.of, "err", msg, in.data, <<>>, <<>>, "")
        IN  IF p.st = "empty"
            THEN /\ CodecReturn(t, Res("decode", in.of, "ok", Nil, in.data, <<>>, <<>>, ""))
                 /\ UNCHANGED typeArr
            ELSE IF p.st = "err"
            THEN CodecReturn(t, fail("service: Could not unmarshal node")) /\ UNCHANGED typeArr
            ELSE IF ~found \/ Resolve(p.env[1].Type) = {}
            THEN CodecReturn(t, fail("Could not get node type")) /\ UNCHANGED typeArr
            ELSE IF ~initOk
            THEN CodecReturn(t, fail("Could not init node fields")) /\ UNCHANGED typeArr
            ELSE LET type == CHOOSE ty \in Resolve(p.env[1].Type) : TRUE
                     a == GoAppend(typeArr[type.Id], Len(type.Fields), p.env[1].LocalFields)
                 IN  /\ typeArr' = [typeArr EXCEPT ![type.Id] = a.arr]
                     /\ cloc' = [cloc EXCEPT
                                   ![t] = [k |-> "decode", of |-> in.of, data |-> in.data,
                                           env |-> p.env[1], type |-> type,
                                           nodeFields |-> a.slice]]
                     /\ cpc' = [cpc EXCEPT ![t] = "dec.load"]
                     /\ UNCHANGED cres
    /\ UNCHANGED <<cnode, Path, clientVars, brokerVars, serveVars>>

\* lines 155-165: the loop over nodeFields and the return (or the panic)
DecodeLoad(t) ==
    /\ cpc[t] = "dec.load"
    /\ LET l == cloc[t]
           ids == Elems(l.nodeFields, typeArr[l.type.Id])
           d == LoadFieldsOf(l.env, l.type, TRUE, ids)
       IN  CodecReturn(t, Res("decode", l.of, d.st, d.err, l.data, d.node, ids, ""))
    /\ UNCHANGED <<cnode, Path, typeArr, clientVars, brokerVars, serveVars>>

\* a thread reads node.Path
ReadPath(t, n) ==
    /\ cpc[t] = "idle"
    /\ CodecReturn(t, Res("read", n, "ok", Nil, <<>>, <<>>, <<>>, Path[n]))
    /\ UNCHANGED <<cnode, Path, typeArr, clientVars, brokerVars, serveVars>>

\* one thread holds one of the nodes and the type's array may have a spare slot
InitCodec ==
    /\ Error = [c \in Clients |-> Nil]
    /\ SignalHandlers = [c \in Clients |-> [n \in Signals |-> NoHandler]]
    /\ pc = [c \in Clients |-> "new"]
    /\ arg = [c \in Clients |-> NoArg]
    /\ loc = [c \in Clients |-> NoLoc]
    /\ ret = [c \in Clients |-> NoRet]
    /\ retarg = [c \in Clients |-> <<>>]
    /\ trace = [c \in Clients |-> <<>>]
    /\ inflight = [c \in Clients |-> <<>>]
    /\ reply = [c \in Clients |-> <<>>]
    /\ subscriptions = {}
    /\ emission = NoEmission
    /\ hpc = [r \in Requests |-> "start"]
    /\ Serv = [r \in Requests |-> NoSession]
    /\ Action = [r \in Requests |-> <<>>]
    /\ defers = [r \in Requests |-> <<>>]
    /\ response = [r \in Requests |-> "none"]
    /\ hlog = [r \in Requests |-> <<>>]
    /\ idle = {}
    /\ created = 0
    /\ \E node \in CodecNodes :
         cnode = [n \in NodeIds |-> IF n = Caller THEN node ELSE MkNode("About", "Hello")]
    /\ Path = [n \in NodeIds |-> "/about"]
    /\ \E arr \in TypeArrays(PageType) :
         typeArr = [id \in {"page", "bad"} |-> IF id = "page" THEN arr ELSE BadType.Fields]
    /\ cpc = [t \in Threads |-> "idle"]
    /\ cloc = [t \in Threads |-> NoLoc]
    /\ cres = [t \in Threads |-> NoRes]

NextCodec ==
    \/ EncodeBegin(Caller, Caller)
    \/ EncodeClear(Caller)
    \/ EncodeCopy(Caller)
    \/ EncodeAppend(Caller)
    \/ EncodeDump(Caller)
    \/ DecodeBegin(Caller, DecodeInputs(Caller))
    \/ DecodeLoad(Caller)

SpecCodec == InitCodec /\ [][NextCodec]_vars

\* every thread built a page with a local field of its own; the pages share
\* the NodeType
InitShared ==
    /\ Error = [c \in Clients |-> Nil]
    /\ SignalHandlers = [c \in Clients |-> [n \in Signals |-> NoHandler]]
    /\ pc = [c \in Clients |-> "new"]
    /\ arg = [c \in Clients |-> NoArg]
    /\ loc = [c \in Clients |-> NoLoc]
    /\ ret = [c \in Clients |-> NoRet]
    /\ retarg = [c \in Clients |-> <<>>]
    /\ trace = [c \in Clients |-> <<>>]
    /\ inflight = [c \in Clients |-> <<>>]
    /\ reply = [c \in Clients |-> <<>>]
    /\ subscriptions = {}
    /\ emission = NoEmission
    /\ hpc = [r \in Requests |-> "start"]
    /\ Serv = [r \in Requests |-> NoSession]
    /\ Action = [r \in Requests |-> <<>>]
    /\ defers = [r \in Requests |-> <<>>]
    /\ response = [r \in Requests |-> "none"]
    /\ hlog = [r \in Requests |-> <<>>]
    /\ idle = {}
    /\ created = 0
    /\ cnode = [n \in NodeIds |-> LocalNode(IF n % 2 = 1 THEN LocalX ELSE LocalY)]
    /\ Path = [n \in NodeIds |-> "/about"]
    /\ \E arr \in TypeArrays(PageType) :
         typeArr = [id \in {"page", "bad"} |-> IF id = "page" THEN arr ELSE BadType.Fields]
    /\ cpc = [t \in Threads |-> "idle"]
    /\ cloc = [t \in Threads |-> NoLoc]
    /\ cres = [t \in Threads |-> NoRes]

\* the thread has made no call yet
Fresh(t) == cres[t].op = "none"
\* the bytes of the thread's own node
OwnPayload(t) == {[data |-> nodeToData(cnode[t]).data, of |-> t]}

\* every thread makes one call: it encodes a node, decodes the bytes of its
\* node, or reads the path of a node
NextShared ==
    \/ \E t \in Threads, n \in NodeIds : Fresh(t) /\ EncodeBegin(t, n)
    \/ \E t \in Threads : EncodeClear(t)
    \/ \E t \in Threads : EncodeCopy(t)
    \/ \E t \in Threads : EncodeAppend(t)
    \/ \E t \in Threads : EncodeDump(t)
    \/ \E t \in Threads : Fresh(t) /\ DecodeBegin(t, OwnPayload(t))
    \/ \E t \in Threads : DecodeLoad(t)
    \/ \E t \in Threads, n \in NodeIds : Fresh(t) /\ ReadPath(t, n)

SpecShared == InitShared /\ [][NextShared]_vars

(***************************************************************************)
(* Properties of the node codec used by one thread (SpecCodec).            *)
(***************************************************************************)
Decoded1(t) == cres[t].op = "decode" /\ cres[t].st = "ok" /\ Len(cres[t].node) = 1
IdsOf(type, locals) == {(type.Fields \o locals)[i] : i \in 1 .. Len(type.Fields \o locals)}
ResolverErrors == {"Could not get node type", "Could not init node fields"}
\* the envelope has an entry under the group and the name
HasEntry(fields, group, name) == group \in DOMAIN fields /\ name \in DOMAIN fields[group]

\* C12: decoding the bytes that nodeToData returned for the node n, with a
\* resolver that returns n's type and fields that initialize, yields a node
\* with n's type, changed timestamp, local field list and the value of every
\* declared and local field, and with the empty path.
C12_RoundTrip ==
    \A t \in Threads :
        (cres[t].op = "decode" /\ cres[t].n # NoNode /\ cres[t].err \notin ResolverErrors)
            => /\ Decoded1(t)
               /\ LET n == cnode[cres[t].n]
                      m == cres[t].node[1]
                  IN  /\ m.Type = n.Type
                      /\ m.Changed = n.Changed
                      /\ m.LocalFields = n.LocalFields
                      /\ m.Path = ""
                      /\ DOMAIN m.Fields = IdsOf(n.Type, n.LocalFields)
                      /\ \A id \in IdsOf(n.Type, n.LocalFields) : m.Fields[id] = n.Fields[id]

\* the page with a local field came back from its bytes, the local field
\* included
C12_Witness ==
    /\ Decoded1(Caller)
    /\ cres[Caller].n = Caller
    /\ cnode[Caller] = LocalNode(LocalX)
    /\ cres[Caller].node[1].Fields[LocalX] = "extra"
    /\ cres[Caller].node[1].Fields[CoreBody] = "Hello"

\* C13: the fields of a decoded node are those its type declares and its
\* local ones: a field whose group/name entry the envelope lacks keeps the
\* value InitFields gave it, an entry of the envelope that no field declares
\* is not in the node, and neither case is an error.
C13_FieldsFollowTheType ==
    \A t \in Threads :
        LET p == ParseNode(cres[t].data)
        IN  (cres[t].op = "decode" /\ p.st = "ok" /\ cres[t].err \notin ResolverErrors)
                => LET env == p.env[1]
                       type == CHOOSE ty \in Resolve(env.Type) : TRUE
                       ids == IdsOf(type, env.LocalFields)
                   IN  /\ (\A id \in ids : Len(SplitN(id)) = 2) => Decoded1(t)
                       /\ Decoded1(t) =>
                            /\ DOMAIN cres[t].node[1].Fields = ids
                            /\ \A id \in ids :
                                 ~HasEntry(env.Fields, SplitN(id)[1], SplitN(id)[2])
                                    => cres[t].node[1].Fields[id] = DefaultValue

\* the envelope that lacks the body and carries an entry no field declares was
\* decoded
C13_Witness ==
    /\ Decoded1(Caller)
    /\ cres[Caller].data = JsonMarshal(EnvExtra)
    /\ cres[Caller].node[1].Fields[CoreTitle] = "About"
    /\ cres[Caller].node[1].Fields[CoreBody] = DefaultValue

\* C14: an empty payload decodes to no node and no error before the type
\* resolver is asked; so GetNode on a client without sticky error whose
\* Monsti.GetNode reply is empty returns (nil, nil) and makes no
\* Monsti.GetNodeType call.
C14_EmptyPayloadIsNoNode ==
    /\ [](ParseNode(EmptyData) = [st |-> "empty", env |-> <<>>])
    /\ [](\A c \in Clients :
            (LastOp(c, "GetNode") /\ ret[c].err = Nil /\ ret[c].val = <<>>)
                => CallsOf(trace[c], "Monsti.GetNodeType") = <<>>)
    /\ [][\A c \in Clients :
            (pc[c] = "GetNode" /\ reply[c] = <<[err |-> Nil, val |-> EmptyData]>>)
                => /\ Idle(c)'
                   /\ ret'[c] = [op |-> "GetNode", err |-> Nil, val |-> <<>>]
                   /\ trace'[c] = trace[c]
                   /\ inflight'[c] = <<>>]_vars

\* GetNode returned (nil, nil) after its one call
C14_Witness ==
    /\ LastOp(Self, "GetNode")
    /\ Error[Self] = Nil
    /\ ret[Self].err = Nil
    /\ ret[Self].val = <<>>
    /\ Calls(trace[Self]) = <<CallEv("Monsti.GetNode", <<>>)>>

\* the envelope holds, for a field of the type, a raw value that does not load
LoadFails(env) ==
    \E ty \in Resolve(env.Type) : \E id \in IdsOf(ty, env.LocalFields) :
        /\ Len(SplitN(id)) = 2
        /\ HasEntry(env.Fields, SplitN(id)[1], SplitN(id)[2])
        /\ JsonUnmarshal(env.Fields[SplitN(id)[1]][SplitN(id)[2]]).err # Nil

\* C15: dataToNode returns an error and no node when the envelope is
\* malformed, when the resolver does not resolve the type, and when the load
\* of a declared or local field fails on its raw value.
C15_DecodeFailuresAreErrors ==
    \A t \in Threads :
        cres[t].op = "decode" =>
            LET p == ParseNode(cres[t].data)
            IN  /\ p.st = "err" => cres[t].st = "err" /\ cres[t].node = <<>>
                /\ (p.st = "ok" /\ Resolve(p.env[1].Type) = {})
                      => cres[t].st = "err" /\ cres[t].node = <<>>
                /\ (p.st = "ok" /\ LoadFails(p.env[1]))
                      => cres[t].st = "err" /\ cres[t].node = <<>>

\* nodeToData has returned to the thread, or has panicked
Encoded(t) == cres[t].op = "encode" /\ cpc[t] \in {"idle", "crashed"}

\* C16: when nodeToData returns, with bytes, with an error or with a panic,
\* the path of the caller's node is what it was before the call, and the bytes
\* carry the empty path.
C16_EncodeKeepsThePath ==
    \A t \in Threads :
        Encoded(t) =>
            /\ Path[cres[t].n] = cnode[cres[t].n].Path
            /\ cres[t].path = cnode[cres[t].n].Path
            /\ cres[t].st = "ok" => JsonUnmarshal(cres[t].data).val.Path = ""

\* nodeToData failed on a field that does not dump, and the path is back
C16_Witness ==
    /\ Encoded(Caller)
    /\ cres[Caller].st = "err"
    /\ cnode[Caller] = MkNode("About", Undumpable)
    /\ Path[Caller] = "/about"

\* C20: nodeToData and dataToNode return a result or an error for every node
\* and payload, also for a field id without "." and for a field without value
\* object: no call panics.
C20_CodecNeverPanics ==
    \A t \in Threads : cpc[t] # "crashed" /\ (cres[t].op # "none" => cres[t].st # "panic")

(***************************************************************************)
(* Properties of the node codec used by several threads (SpecShared).      *)
(***************************************************************************)
\* C17: a thread that reads the path of a node sees the path the node's owner
\* gave it, also while another thread encodes the node.
C17_PathNeverSeenCleared ==
    \A t \in Threads : cres[t].op = "read" => cres[t].path = cnode[cres[t].n].Path

\* C19: every nodeToData and dataToNode call iterates the declared fields of
\* its node's type followed by its own node's local fields, also when another
\* thread encodes or decodes a node of the same type; the declared list of
\* the type does not change.
C19_OwnFieldListIterated ==
    /\ \A id \in DOMAIN typeArr :
         \A ty \in Resolve(id) : SubSeq(typeArr[id], 1, Len(ty.Fields)) = ty.Fields
    /\ \A t \in Threads :
         /\ cres[t].op = "encode"
              => cres[t].ids = cnode[cres[t].n].Type.Fields \o cnode[cres[t].n].LocalFields
         /\ (cres[t].op = "decode" /\ cres[t].st # "err")
              => LET env == ParseNode(cres[t].data).env[1]
                 IN  \A ty \in Resolve(env.Type) : cres[t].ids = ty.Fields \o env.LocalFields

(***************************************************************************)
(* EmitSignal and the caller's result collection (Spec).                   *)
(***************************************************************************)
\* C18: an EmitSignal that returns an error (the argument does not encode, the
\* call fails, an answer does not decode) leaves the caller's result
\* collection as it was before the call.
C18_EmitAllOrNothing ==
    [][\A c \in Clients :
         (Idle(c)' /\ ret'[c].op = "EmitSignal" /\ ret'[c].err # Nil
            /\ pc[c] \in {"idle", "EmitSignal"} /\ ret'[c] # ret[c])
            => retarg'[c] = retarg[c]]_vars

(***************************************************************************)
(* AddSignalHandler and the broker's answer (Spec).                        *)
(***************************************************************************)
\* C21: AddSignalHandler changes the client's handler table only in the step
\* in which Monsti.ConnectSignal came back without error; when the call
\* failed it returns an error and the table is as before, a handler registered
\* earlier under the name included.
C21_HandlerStoredAfterConnect ==
    /\ [][\A c \in Clients :
            (pc[c] = "AddSignalHandler" /\ reply[c] # <<>> /\ reply[c][1].err # Nil)
                => /\ Idle(c)'
                   /\ ret'[c].op = "AddSignalHandler"
                   /\ ret'[c].err = "service: Monsti.ConnectSignal error"
                   /\ SignalHandlers'[c] = SignalHandlers[c]]_vars
    /\ [][\A c \in Clients :
            SignalHandlers'[c] # SignalHandlers[c]
                => /\ pc[c] = "AddSignalHandler"
                   /\ reply[c] # <<>> /\ reply[c][1].err = Nil
                   /\ Calls(trace[c])[Len(Calls(trace[c]))].what = "Monsti.ConnectSignal"]_vars

\* the registration of h2 under X failed at the broker and h1 is still there
C21_Witness ==
    /\ LastOp(Self, "AddSignalHandler")
    /\ Error[Self] = Nil
    /\ ret[Self].err = "service: Monsti.ConnectSignal error"
    /\ arg[Self].name = "X"
    /\ arg[Self].handle = "h2"
    /\ SignalHandlers[Self]["X"] = "h1"

(***************************************************************************)
(* GetChildren and the broker's list (Spec).                               *)
(***************************************************************************)
\* the entries of the Monsti.GetChildren reply the running call ranges over
EntriesOf(c) == IF pc[c] = "GetChildren" THEN reply[c][1].val ELSE loc[c].entries

\* the node dataToNode makes of a well-formed entry once its type is known
NodesOfEntry(entry) ==
    {LoadNode(ParseNode(entry).env[1], ty, TRUE).node : ty \in NodeTypes}

\* C22: GetChildren on a client without sticky error returns either an error
\* and no nodes, or one node per entry of the broker's reply in the reply's
\* order, the i-th being the decode of the i-th entry (no node for an empty
\* entry); when dataToNode fails on one entry the call returns an error.
C22_ChildrenFollowTheReply ==
    [][\A c \in Clients :
         (pc[c] \in {"GetChildren", "GetChildren.type"} /\ Idle(c)')
            => /\ ret'[c].op = "GetChildren"
               /\ ret'[c].err # Nil => ret'[c].val = <<>>
               /\ (reply[c] # <<>> /\ reply[c][1].err # Nil) => ret'[c].err # Nil
               /\ ret'[c].err = Nil =>
                    LET es == EntriesOf(c)
                        ns == ret'[c].val[1]
                    IN  /\ Len(ns) = Len(es)
                        /\ \A i \in 1 .. Len(es) :
                             IF es[i] = EmptyData
                             THEN ns[i] = <<>>
                             ELSE /\ ParseNode(es[i]).st = "ok"
                                  /\ ns[i] \in NodesOfEntry(es[i])]_vars

\* the broker replied an empty entry and then a page: GetChildren returned no
\* node and then the page, after one lookup of the node type
C22_Witness ==
    /\ LastOp(Self, "GetChildren")
    /\ Error[Self] = Nil
    /\ ret[Self].err = Nil
    /\ Len(ret[Self].val[1]) = 2
    /\ ret[Self].val[1][1] = <<>>
    /\ ret[Self].val[1][2] \in NodesOfEntry(nodeToData(MkNode("About", "Hello")).data)
    /\ Len(CallsOf(trace[Self], "Monsti.GetNodeType")) = 1

(***************************************************************************)
(* The order of the steps of ServeHTTP (SpecServe).                        *)
(***************************************************************************)
\* the events of request r that say what happened
Happened(r, e, what) ==
    {i \in 1 .. Len(hlog[r]) : hlog[r][i].ev = e /\ hlog[r][i].what = what}

====
